---------------------------- MODULE Spec2Model ----------------------------
(***************************************************************************)
(* Model of src/model_learn/model.py: the command-line script that loads   *)
(* two gridded datasets, flattens selected variables into a feature and a  *)
(* label table, splits them, and runs a fixed sweep of regressors.         *)
(*                                                                         *)
(* The third-party calls (numpy indexing/flatten, pandas construction and  *)
(* column assignment, sklearn train_test_split and the estimators'         *)
(* input validation) are modelled by what they do to shapes, row order and *)
(* exceptions; a score's numeric value is not modelled, only the fact that *)
(* it was logged and under which label.                                    *)
(***************************************************************************)
EXTENDS Integers, Sequences, FiniteSets, TLC

VARIABLES
    pc,          \* position in the script
    env,         \* what the command line and the files hold (never changes)
    heap,        \* the objects created so far, by identity: Seq of tables
    df_features, \* name -> object id (0: unbound)
    df_labels,
    split,       \* train_x, test_x, train_y, test_y: object ids (0: unbound)
    call,        \* the frame of the running train_test_linear call
    log,         \* what _logger has written
    exc,         \* the exception in flight or last raised ("None": none)
    exitcode,    \* the process's exit status (-1: still running)
    sweeps       \* how many times train_test_linear has been entered

vars == <<pc, env, heap, df_features, df_labels, split, call, log, exc,
          exitcode, sweeps>>

---------------------------------------------------------------------------
(* Bounds of the model *)

MaxTime == 3
MaxLev == 2
MaxLat == 3
MaxLon == 3
MaxShift == 1
MaxTrainRows == 21
MaxTestRows == 2
MaxCols == 2

---------------------------------------------------------------------------
(* Small helpers *)

Range(s) == {s[i] : i \in 1..Len(s)}

Max(a, b) == IF a >= b THEN a ELSE b

RECURSIVE Product(_)
Product(shape) ==
    IF shape = <<>> THEN 1 ELSE shape[1] * Product(Tail(shape))

RECURSIVE Concat(_)
Concat(ss) == IF ss = <<>> THEN <<>> ELSE ss[1] \o Concat(Tail(ss))

NaN == <<"NaN">>

---------------------------------------------------------------------------
(* The variables the script reads, in the order it reads them *)

Features4 == <<"PS", "T", "U", "V">>
Labels3 == <<"PTTEND", "PUTEND", "PVTEND">>

---------------------------------------------------------------------------
(* A gridded dataset (xarray Dataset) and its arrays (numpy ndarray).      *)
(* A dataset is [dims, lev, vars, time, nan]: the sizes of its dimensions, *)
(* the variables that have a vertical-level dimension, the variables it    *)
(* holds, its time coordinate, and the variables holding a NaN.            *)
(* A cell's value is the cell's own name, so that order is observable.     *)

Shape(ds, v) ==
    IF v \in ds.lev
    THEN <<ds.dims.time, ds.dims.lev, ds.dims.lat, ds.dims.lon>>
    ELSE <<ds.dims.time, ds.dims.lat, ds.dims.lon>>

\* The index tuples of an array of the given shape, in C (row-major) order:
\* the last index varies fastest.
RECURSIVE RowMajor(_)
RowMajor(shape) ==
    IF shape = <<>> THEN << <<>> >>
    ELSE LET rest == RowMajor(Tail(shape))
         IN Concat([i \in 1..shape[1] |->
                       [k \in 1..Len(rest) |-> <<i - 1>> \o rest[k]]])

Zeros(shape) == [i \in 1..Len(shape) |-> 0]

\* ds.variables[v].values
Values(ds, v) ==
    LET shape == Shape(ds, v)
    IN [shape |-> shape,
        at |-> [idx \in Range(RowMajor(shape)) |->
                   IF v \in ds.nan /\ idx = Zeros(shape) THEN NaN
                   ELSE <<v>> \o idx]]

\* a[:, :, :] : three full slices; valid on any array of three or more
\* dimensions, and then selects all of it.
CanIndexAll3(a) == Len(a.shape) >= 3
IndexAll3(a) == a

\* a[:, 0, :, :] : four indices; numpy raises IndexError on an array of
\* fewer than four dimensions. Selects index 0 of the second dimension.
CanIndexLev0(a) == Len(a.shape) >= 4 /\ a.shape[2] >= 1
IndexLev0(a) ==
    LET shape == <<a.shape[1], a.shape[3], a.shape[4]>>
    IN [shape |-> shape,
        at |-> [idx \in Range(RowMajor(shape)) |->
                   a.at[<<idx[1], 0, idx[2], idx[3]>>]]]

\* ndarray.flatten(): the elements in row-major order.
Flatten(a) ==
    LET idx == RowMajor(a.shape)
    IN [k \in 1..Len(idx) |-> a.at[idx[k]]]

\* The slice the script takes of each variable (lines 161-164, 172-174,
\* 191-193): "all3" is values[:, :, :], "lev0" is values[:, 0, :, :].
Selector(v) ==
    IF v \in {"PS", "PRECL", "Q"} THEN "all3" ELSE "lev0"

\* The exception raised by  pd.Series(ds.variables[v].values[...].flatten())
ColumnError(ds, v) ==
    IF v \notin ds.vars THEN "KeyError"
    ELSE IF Selector(v) = "all3" /\ ~CanIndexAll3(Values(ds, v))
         THEN "IndexError"
    ELSE IF Selector(v) = "lev0" /\ ~CanIndexLev0(Values(ds, v))
         THEN "IndexError"
    ELSE "None"

\* pd.Series(ds.variables[v].values[...].flatten()): position k has label k-1
Column(ds, v) ==
    IF Selector(v) = "all3" THEN Flatten(IndexAll3(Values(ds, v)))
    ELSE Flatten(IndexLev0(Values(ds, v)))

\* The first exception raised when the columns are built in order.
RECURSIVE FirstError(_, _)
FirstError(ds, vs) ==
    IF vs = <<>> THEN "None"
    ELSE IF ColumnError(ds, vs[1]) # "None" THEN ColumnError(ds, vs[1])
    ELSE FirstError(ds, Tail(vs))

---------------------------------------------------------------------------
(* Tables (pandas DataFrame; numpy 2-D array for a caller that passes one) *)
(* A table is [kind, columns, index, data]: its column names in order, its *)
(* row labels in order, and each column's values in row order.             *)

NRows(t) == Len(t.index)
NCols(t) == Len(t.columns)

\* A series aligned to row labels: the value at each label, NaN where the
\* series has no such label (a series' labels are 0..Len-1).
Align(series, index) ==
    [k \in 1..Len(index) |->
        IF index[k] + 1 <= Len(series) THEN series[index[k] + 1] ELSE NaN]

RECURSIVE MaxLen(_)
MaxLen(ss) == IF ss = <<>> THEN 0 ELSE Max(Len(ss[1]), MaxLen(Tail(ss)))

\* pd.DataFrame({name: series, ...}): the index is the union of the series'
\* indexes, the columns are in insertion order.
DataFrame(names, series) ==
    LET index == [k \in 1..MaxLen(series) |-> k - 1]
    IN [kind |-> "DataFrame",
        columns |-> names,
        index |-> index,
        data |-> [c \in Range(names) |->
                     Align(series[CHOOSE i \in 1..Len(names) : names[i] = c],
                           index)]]

\* (variant: the table takes the series' row labels)
SetItemReindex(df, name, series) ==
    [kind |-> df.kind,
     columns |-> Append(df.columns, name),
     index |-> [k \in 1..Len(series) |-> k - 1],
     data |-> [c \in Range(df.columns) \cup {name} |->
                  IF c = name THEN series
                  ELSE Align(df.data[c], [k \in 1..Len(series) |-> k - 1])]]

\* df[name] = series, in place: the rows and the other columns stay, the
\* series is aligned to the table's row labels.
SetItem(df, name, series) ==
    [kind |-> df.kind,
     columns |-> IF name \in Range(df.columns) THEN df.columns
                 ELSE Append(df.columns, name),
     index |-> df.index,
     data |-> [c \in Range(df.columns) \cup {name} |->
                  IF c = name THEN Align(series, df.index) ELSE df.data[c]]]

\* df[key] raises KeyError unless key names a column. The key of line 206
\* is the tuple ('PRECL', 'Q'), written here as that tuple's text.
GetItemError(df, key) ==
    IF key \in Range(df.columns) THEN "None" ELSE "KeyError"

\* Rows by position, in the order given (a new object).
Take(t, positions) ==
    [kind |-> t.kind,
     columns |-> t.columns,
     index |-> [k \in 1..Len(positions) |-> t.index[positions[k]]],
     data |-> [c \in Range(t.columns) |->
                  [k \in 1..Len(positions) |-> t.data[c][positions[k]]]]]

HasNaN(t) ==
    \E c \in Range(t.columns) : \E k \in 1..NRows(t) : t.data[c][k] = NaN

---------------------------------------------------------------------------
(* train_test_split(x, y, test_size=0.25, random_state=4)                  *)

TestSizePercent == 25

\* (variant: the test size rounded down)
NTestFloor(n) == (TestSizePercent * n) \div 100

\* sklearn sizes the test subset as ceil(test_size * n) and gives the rest
\* to the train subset.
NTest(n) == (TestSizePercent * n + 99) \div 100

NTrain(n) == n - NTest(n)

\* The seeded generator's permutation of the n row positions is fixed by
\* the seed and n but not known here: any member of this family.
Shuffles(n) ==
    LET shifts == 0..(IF n - 1 < MaxShift THEN n - 1 ELSE MaxShift)
    IN {[i \in 1..n |-> ((i - 1 + k) % n) + 1] : k \in shifts}
       \cup {[i \in 1..n |-> n - ((i - 1 + k) % n)] : k \in shifts}

\* The exception train_test_split raises: the tables differ in row count,
\* or the train subset would be empty.
SplitError(x, y) ==
    IF NRows(x) # NRows(y) THEN "ValueError"
    ELSE IF NTrain(NRows(x)) = 0 THEN "ValueError"
    ELSE "None"

\* <<train_x, test_x, train_y, test_y>>: the first NTest positions of the
\* permutation are the test rows, the rest the train rows.
TrainTestSplit(x, y, perm) ==
    LET n == NRows(x)
        test == SubSeq(perm, 1, NTest(n))
        train == SubSeq(perm, NTest(n) + 1, n)
    IN <<Take(x, train), Take(x, test), Take(y, train), Take(y, test)>>

---------------------------------------------------------------------------
(* train_test_linear: the estimators in the order the function runs them   *)

Loop(name, params) ==
    [i \in 1..Len(params) |-> [name |-> name, param |-> params[i]]]

Estimators ==
    << [name |-> "LRM", param |-> 0], [name |-> "Ridge", param |-> 0] >>
    \o Loop("Random Forest", <<3, 10, 20, 100, 250>>)
    \o Loop("K-Neighbors", <<1, 3, 5, 10, 20>>)
    \o Loop("Extra Trees", <<3, 6, 10, 20>>)
    \o << [name |-> "SVR (linear)", param |-> 0],
          [name |-> "SVR (polynomial)", param |-> 0],
          [name |-> "SVR (RBF)", param |-> 0] >>

\* The estimators' input validation, common to every fit(X, y): X and y
\* hold no NaN and have the same number of rows.
ValidationError(x, y) ==
    IF HasNaN(x) \/ HasNaN(y) THEN "ValueError"
    ELSE IF NRows(x) # NRows(y) THEN "ValueError"
    ELSE "None"

\* t.flatten(): a numpy array has it (and gives a 1-D array); a DataFrame
\* has no such attribute.
HasFlatten(t) == t.kind = "ndarray"

\* The number of dimensions of what fit() is given.
NDim(t) == IF t.kind = "flat" THEN 1 ELSE 2

FlattenTable(t) == [t EXCEPT !.kind = "flat"]

\* (variant: the step works on a single-column label table)
SVRLinearValidIfOneLabel(x_train, y_train, x_test, y_test) ==
    IF NCols(y_train) > 1 THEN "ValueError"
    ELSE ValidationError(x_train, y_train)

\* Lines 87-89: SVR(kernel='linear').fit(x_train.flatten(), y_train.flatten())
\* then score. fit() refuses an X that is not 2-D.
SVRLinearError(x_train, y_train, x_test, y_test) ==
    IF ~HasFlatten(x_train) \/ ~HasFlatten(y_train) THEN "AttributeError"
    ELSE IF NDim(FlattenTable(x_train)) # 2 THEN "ValueError"
    ELSE IF ValidationError(x_train, y_train) # "None" THEN "ValueError"
    ELSE ValidationError(x_test, y_test)

\* The exception one estimator's fit-then-score raises ("None": a score is
\* computed). k-neighbours cannot predict with more neighbours than
\* training rows; SVR takes a single-column y only.
StepError(est, x_train, y_train, x_test, y_test) ==
    IF est.name = "SVR (linear)"
    THEN SVRLinearError(x_train, y_train, x_test, y_test)
    ELSE IF ValidationError(x_train, y_train) # "None" THEN "ValueError"
    ELSE IF est.name \in {"SVR (polynomial)", "SVR (RBF)"}
            /\ NCols(y_train) > 1
         THEN "ValueError"
    ELSE IF est.name = "K-Neighbors" /\ est.param > NRows(x_train)
         THEN "ValueError"
    ELSE ValidationError(x_test, y_test)

---------------------------------------------------------------------------
(* Log records *)

Info(msg) == [kind |-> "info", msg |-> msg, param |-> 0]
Score(est) == [kind |-> "score", msg |-> est.name, param |-> est.param]
Failed == [kind |-> "exception", msg |-> "Failed to complete", param |-> 0]

NoCall == [x_train |-> 0, y_train |-> 0, x_test |-> 0, y_test |-> 0,
           step |-> 0, base |-> 0, ret |-> "none"]

NoSplit == [train_x |-> 0, test_x |-> 0, train_y |-> 0, test_y |-> 0]

---------------------------------------------------------------------------
(* The inputs: the command line and the two files' datasets *)

FeatureVars == {"time", "PS", "T", "U", "V", "PRECL", "Q"}
LabelVars == {"time", "PTTEND", "PUTEND", "PVTEND", "PTEQ"}

\* Which variables carry a vertical-level dimension: as in CAM output (PS
\* and PRECL are surface fields).
LevCAM == {"T", "U", "V", "Q", "PTTEND", "PUTEND", "PVTEND", "PTEQ"}

Grids ==
    [time : 1..MaxTime, lev : 1..MaxLev, lat : 1..MaxLat, lon : 1..MaxLon]

SmallGrids == {g \in Grids : g.lat = 1 /\ g.lon = 1}

Days(n) == [i \in 1..n |-> i - 1]

\* Time coordinates of n steps: the day offsets, and the day offsets with
\* one element changed.
TimeArrays(n) ==
    {Days(n)} \cup {[Days(n) EXCEPT ![j] = Days(n)[j] + 1] : j \in 1..n}

Dataset(dims, lev, present, time, nan) ==
    [dims |-> dims, lev |-> lev, vars |-> present, time |-> time, nan |-> nan]

Env(args_ok, files_ok, features, labels) ==
    [args_ok |-> args_ok, files_ok |-> files_ok,
     features |-> features, labels |-> labels]

\* One fault per faulty run: a bad command line, an unreadable file, one
\* variable missing from one file, T stored without a level dimension, or
\* a NaN in PS.
Faults ==
    {<<"args", "">>, <<"files", "">>, <<"nan", "PS">>, <<"surface", "T">>}
    \cup {<<"features", v>> : v \in {"time", "PS", "T", "U", "V"}}
    \cup {<<"labels", v>> : v \in {"time", "PTTEND", "PUTEND", "PVTEND"}}

\* The environment with fault f, feature grid g, tl time steps in the label
\* file and label time coordinate ts.
FaultyEnv(f, g, tl, ts) ==
    Env(f[1] # "args", f[1] # "files",
        Dataset(g,
                IF f[1] = "surface" THEN LevCAM \ {f[2]} ELSE LevCAM,
                IF f[1] = "features" THEN FeatureVars \ {f[2]}
                ELSE FeatureVars,
                Days(g.time),
                IF f[1] = "nan" THEN {f[2]} ELSE {}),
        Dataset([g EXCEPT !.time = tl], LevCAM,
                IF f[1] = "labels" THEN LabelVars \ {f[2]} ELSE LabelVars,
                ts, {}))

\* Every grid with every label time coordinate and no fault; each fault on
\* the grids of one latitude and one longitude.
MainEnvs ==
    UNION {{FaultyEnv(<<"none", "">>, g, tl, ts) :
               g \in Grids, ts \in TimeArrays(tl)} : tl \in 1..MaxTime}
    \cup {FaultyEnv(f, g, g.time, Days(g.time)) :
            f \in Faults, g \in SmallGrids}

ds_features == env.features
ds_labels == env.labels

---------------------------------------------------------------------------
(* The script, lines 130-218 *)

Raise(e) == pc' = "raised" /\ exc' = e

\* Lines 133-142: argparse exits the process with status 2 on a bad command
\* line (SystemExit, which `except Exception` does not catch).
ParseArgs ==
    /\ pc = "parse"
    /\ IF env.args_ok
       THEN pc' = "open" /\ exitcode' = exitcode
       ELSE pc' = "exit" /\ exitcode' = 2
    /\ UNCHANGED <<env, heap, df_features, df_labels, split, call, log, exc,
                   sweeps>>

\* Lines 145-146
OpenDatasets ==
    /\ pc = "open"
    /\ IF env.files_ok
       THEN pc' = "check" /\ exc' = exc
       ELSE Raise("OSError")
    /\ UNCHANGED <<env, heap, df_features, df_labels, split, call, log,
                   exitcode, sweeps>>

\* a != b on two 1-D numpy arrays: element-wise under broadcasting.
Broadcastable(a, b) == Len(a) = Len(b) \/ Len(a) = 1 \/ Len(b) = 1

At(a, i) == IF Len(a) = 1 THEN a[1] ELSE a[i]

AnyNotEqual(a, b) ==
    \E i \in 1..Max(Len(a), Len(b)) : At(a, i) # At(b, i)

\* (variant: a mismatch aborts)
CheckAborts(a, b) == ~Broadcastable(a, b) \/ AnyNotEqual(a, b)

\* Lines 148-152. Arrays that cannot be broadcast make the comparison (newer
\* numpy) or the .any() on its scalar result (older numpy) raise.
CheckRaises(a, b) == ~Broadcastable(a, b)

CheckTimes ==
    /\ pc = "check"
    /\ IF "time" \notin ds_features.vars \/ "time" \notin ds_labels.vars
       THEN Raise("KeyError") /\ log' = log
       ELSE IF CheckRaises(ds_features.time, ds_labels.time)
       THEN /\ pc' = "raised"
            /\ exc' \in {"ValueError", "AttributeError"}
            /\ log' = log
       ELSE /\ pc' = "tabularize"
            /\ exc' = exc
            /\ log' = Append(log,
                   IF AnyNotEqual(ds_features.time, ds_labels.time)
                   THEN Info("ERROR: Non-matching time values")
                   ELSE Info("OK: time values match as expected"))
    /\ UNCHANGED <<env, heap, df_features, df_labels, split, call, exitcode,
                   sweeps>>

Columns(ds, vs) == [i \in 1..Len(vs) |-> Column(ds, vs[i])]

\* Lines 160-178. index.rename('index') names the index and touches neither
\* rows nor columns.
Tabularize ==
    /\ pc = "tabularize"
    /\ IF FirstError(ds_features, Features4) # "None"
       THEN /\ Raise(FirstError(ds_features, Features4))
            /\ UNCHANGED <<heap, df_features, df_labels>>
       ELSE IF FirstError(ds_labels, Labels3) # "None"
       THEN /\ Raise(FirstError(ds_labels, Labels3))
            /\ heap' = Append(heap, DataFrame(Features4,
                                        Columns(ds_features, Features4)))
            /\ df_features' = Len(heap) + 1
            /\ df_labels' = df_labels
       ELSE /\ pc' = "split1"
            /\ exc' = exc
            /\ heap' = heap \o
                 << DataFrame(Features4, Columns(ds_features, Features4)),
                    DataFrame(Labels3, Columns(ds_labels, Labels3)) >>
            /\ df_features' = Len(heap) + 1
            /\ df_labels' = Len(heap) + 2
    /\ UNCHANGED <<env, split, call, log, exitcode, sweeps>>

SiteName(prefix, site) ==
    IF site = 1 THEN prefix \o "1"
    ELSE IF site = 2 THEN prefix \o "2" ELSE prefix \o "3"

\* Lines 181-184, 196-199, 210-213. After the third split the script ends.
Split(site) ==
    /\ pc = SiteName("split", site)
    /\ IF SplitError(heap[df_features], heap[df_labels]) # "None"
       THEN /\ Raise(SplitError(heap[df_features], heap[df_labels]))
            /\ UNCHANGED <<heap, split, exitcode>>
       ELSE /\ \E perm \in Shuffles(NRows(heap[df_features])) :
                 heap' = heap \o TrainTestSplit(heap[df_features],
                                                heap[df_labels], perm)
            /\ split' = [train_x |-> Len(heap) + 1, test_x |-> Len(heap) + 2,
                         train_y |-> Len(heap) + 3, test_y |-> Len(heap) + 4]
            /\ exc' = exc
            /\ IF site = 3
               THEN pc' = "exit" /\ exitcode' = 0
               ELSE pc' = SiteName("enter", site) /\ exitcode' = exitcode
    /\ UNCHANGED <<env, df_features, df_labels, call, log, sweeps>>

Header(site) ==
    IF site = 1 THEN Info("Model results for PS, T, U, and V")
    ELSE Info("Model results for PS, T, U, V, PRECL, and Q")

\* Lines 187-188, 202-203: the header line, then the call.
EnterSweep(site) ==
    /\ pc = SiteName("enter", site)
    /\ log' = Append(log, Header(site))
    /\ call' = [x_train |-> split.train_x, y_train |-> split.train_y,
                x_test |-> split.test_x, y_test |-> split.test_y,
                step |-> 1, base |-> Len(log) + 1,
                ret |-> IF site = 1 THEN "extend" ELSE "trim"]
    /\ sweeps' = sweeps + 1
    /\ pc' = "sweep"
    /\ UNCHANGED <<env, heap, df_features, df_labels, split, exc, exitcode>>

\* (variant: a failed estimator is skipped and the sweep goes on)
StepOutcomeSkipsFailure(err) ==
    /\ IF err # "None" THEN log' = log ELSE
          log' = Append(log, Score(Estimators[call.step]))
    /\ exc' = exc
    /\ call' = [call EXCEPT !.step = call.step + 1]
    /\ pc' = IF call.step = Len(Estimators) THEN call.ret ELSE "sweep"

\* What one step of the sweep does with the outcome of its fit and score.
StepOutcome(err) ==
    IF err # "None"
    THEN Raise(err) /\ UNCHANGED <<log, call>>
    ELSE /\ log' = Append(log, Score(Estimators[call.step]))
         /\ exc' = exc
         /\ call' = [call EXCEPT !.step = call.step + 1]
         /\ pc' = IF call.step = Len(Estimators) THEN call.ret ELSE "sweep"

\* Lines 37-102, one estimator per step: fit, score, log. An exception
\* leaves the function at once; after the last estimator it returns.
SweepStep ==
    /\ pc = "sweep"
    /\ call.step \in 1..Len(Estimators)
    /\ StepOutcome(StepError(Estimators[call.step],
                            heap[call.x_train], heap[call.y_train],
                            heap[call.x_test], heap[call.y_test]))
    /\ UNCHANGED <<env, heap, df_features, df_labels, split, exitcode,
                   sweeps>>

\* (variant: the handler logs and does not re-raise)
HandlerSwallows ==
    /\ pc = "raised"
    /\ log' = Append(log, Failed)
    /\ pc' = "exit"
    /\ exitcode' = 0
    /\ UNCHANGED <<env, heap, df_features, df_labels, split, call, exc,
                   sweeps>>

\* Lines 215-218: log the exception with its trace, re-raise; the
\* interpreter then exits with status 1.
Handler ==
    /\ pc = "raised"
    /\ log' = Append(log, Failed)
    /\ pc' = "exit"
    /\ exitcode' = 1
    /\ UNCHANGED <<env, heap, df_features, df_labels, split, call, exc,
                   sweeps>>

Init ==
    /\ pc = "parse"
    /\ env \in MainEnvs
    /\ heap = <<>>
    /\ df_features = 0
    /\ df_labels = 0
    /\ split = NoSplit
    /\ call = NoCall
    /\ log = <<>>
    /\ exc = "None"
    /\ exitcode = -1
    /\ sweeps = 0

\* No run gets past the first sweep (its linear-kernel SVR step raises on
\* the DataFrames the splitter returns), so the statements of lines 190-213
\* are not steps of this specification; DataSpec below applies them.
Next ==
    \/ ParseArgs
    \/ OpenDatasets
    \/ CheckTimes
    \/ Tabularize
    \/ Split(1)
    \/ EnterSweep(1)
    \/ SweepStep
    \/ Handler

Spec == Init /\ [][Next]_vars

---------------------------------------------------------------------------
(* SweepSpec: train_test_linear as a function, called on row-aligned       *)
(* train/test tables of either kind a caller can pass.                     *)

AllFeatures == Features4 \o <<"PRECL", "Q">>
AllLabels == Labels3 \o <<"PTEQ">>

\* A table of known values: the cell of column c and row label r holds
\* <<c, r>>; with nan, the first cell holds NaN.
SynthTable(kind, cols, nrows, nan) ==
    [kind |-> kind,
     columns |-> cols,
     index |-> [k \in 1..nrows |-> k - 1],
     data |-> [c \in Range(cols) |->
                  [k \in 1..nrows |->
                      IF nan /\ k = 1 /\ c = cols[1] THEN NaN
                      ELSE <<c, k - 1>>]]]

SweepInputs ==
    [kind : {"DataFrame", "ndarray"},
     ntrain : 1..MaxTrainRows,
     ntest : 1..MaxTestRows,
     nfeatures : 1..MaxCols,
     nlabels : 1..MaxCols,
     nan : BOOLEAN]

SweepInit ==
    /\ pc = "sweep"
    /\ env \in SweepInputs
    /\ heap = << SynthTable(env.kind, SubSeq(AllFeatures, 1, env.nfeatures),
                            env.ntrain, env.nan),
                 SynthTable(env.kind, SubSeq(AllLabels, 1, env.nlabels),
                            env.ntrain, FALSE),
                 SynthTable(env.kind, SubSeq(AllFeatures, 1, env.nfeatures),
                            env.ntest, FALSE),
                 SynthTable(env.kind, SubSeq(AllLabels, 1, env.nlabels),
                            env.ntest, FALSE) >>
    /\ df_features = 0
    /\ df_labels = 0
    /\ split = [train_x |-> 1, test_x |-> 3, train_y |-> 2, test_y |-> 4]
    /\ call = [x_train |-> 1, y_train |-> 2, x_test |-> 3, y_test |-> 4,
               step |-> 1, base |-> 0, ret |-> "returned"]
    /\ log = <<>>
    /\ exc = "None"
    /\ exitcode = -1
    /\ sweeps = 1

SweepNext == SweepStep

SweepSpec == SweepInit /\ [][SweepNext]_vars

---------------------------------------------------------------------------
(* DataSpec: the table-shaping statements of the script (lines 160-213) in *)
(* program order, on datasets of matching grids. The body of               *)
(* train_test_linear is left out: it reads its four arguments and logs,    *)
(* and binds no name of the script.                                        *)

\* Lines 191-193, one statement after the other: an exception leaves the
\* columns already added in place.
Extend ==
    /\ pc = "extend"
    /\ LET f1 == SetItem(heap[df_features], "PRECL",
                         Column(ds_features, "PRECL"))
           f2 == SetItem(f1, "Q", Column(ds_features, "Q"))
           l1 == SetItem(heap[df_labels], "PTEQ", Column(ds_labels, "PTEQ"))
       IN IF ColumnError(ds_features, "PRECL") # "None"
          THEN Raise(ColumnError(ds_features, "PRECL")) /\ heap' = heap
          ELSE IF ColumnError(ds_features, "Q") # "None"
          THEN /\ Raise(ColumnError(ds_features, "Q"))
               /\ heap' = [heap EXCEPT ![df_features] = f1]
          ELSE IF ColumnError(ds_labels, "PTEQ") # "None"
          THEN /\ Raise(ColumnError(ds_labels, "PTEQ"))
               /\ heap' = [heap EXCEPT ![df_features] = f2]
          ELSE /\ pc' = "split2"
               /\ exc' = exc
               /\ heap' = [heap EXCEPT ![df_features] = f2,
                                       ![df_labels] = l1]
    /\ UNCHANGED <<env, df_features, df_labels, split, call, log, exitcode,
                   sweeps>>

\* df[key] for a key that names a column: that column, as a new object.
GetItem(df, key) ==
    [kind |-> "Series",
     columns |-> <<key>>,
     index |-> df.index,
     data |-> [c \in {key} |-> df.data[key]]]

\* Lines 206-207. The key of line 206 is one tuple, not a list of names.
Trim ==
    /\ pc = "trim"
    /\ IF GetItemError(heap[df_features], "('PRECL', 'Q')") # "None"
       THEN /\ Raise(GetItemError(heap[df_features], "('PRECL', 'Q')"))
            /\ UNCHANGED <<heap, df_features, df_labels>>
       ELSE IF GetItemError(heap[df_labels], "PTEQ") # "None"
       THEN /\ Raise(GetItemError(heap[df_labels], "PTEQ"))
            /\ heap' = Append(heap, GetItem(heap[df_features],
                                            "('PRECL', 'Q')"))
            /\ df_features' = Len(heap) + 1
            /\ df_labels' = df_labels
       ELSE /\ pc' = "split3"
            /\ exc' = exc
            /\ heap' = heap \o
                 << GetItem(heap[df_features], "('PRECL', 'Q')"),
                    GetItem(heap[df_labels], "PTEQ") >>
            /\ df_features' = Len(heap) + 1
            /\ df_labels' = Len(heap) + 2
    /\ UNCHANGED <<env, split, call, log, exitcode, sweeps>>

\* The call of train_test_linear, seen from the tables: control comes back
\* to the statement after the call and no table has changed.
SweepReturns ==
    /\ pc = "sweep"
    /\ pc' = call.ret
    /\ UNCHANGED <<env, heap, df_features, df_labels, split, call, log, exc,
                   exitcode, sweeps>>

DataEnvs ==
    {Env(TRUE, TRUE,
         Dataset(g, lev, FeatureVars \ {m}, Days(g.time), {}),
         Dataset(g, lev, LabelVars \ {m}, Days(g.time), {})) :
       g \in Grids, lev \in {LevCAM, LevCAM \ {"Q"}},
       m \in {"", "PRECL", "Q", "PTEQ"}}

DataInit ==
    /\ pc = "tabularize"
    /\ env \in DataEnvs
    /\ heap = <<>>
    /\ df_features = 0
    /\ df_labels = 0
    /\ split = NoSplit
    /\ call = NoCall
    /\ log = <<>>
    /\ exc = "None"
    /\ exitcode = -1
    /\ sweeps = 0

DataNext ==
    \/ Tabularize
    \/ \E site \in 1..2 : Split(site)
    \/ \E site \in 1..2 : EnterSweep(site)
    \/ SweepReturns
    \/ Extend
    \/ Trim

DataSpec == DataInit /\ [][DataNext]_vars

---------------------------------------------------------------------------
(* Vocabulary of the properties *)

\* The scores logged by the current (or last) call of train_test_linear.
Scores ==
    SelectSeq(SubSeq(log, call.base + 1, Len(log)),
              LAMBDA r : r.kind = "score")

Count(seq, r) == Cardinality({i \in 1..Len(seq) : seq[i] = r})

\* The 19 labels in the order of the function's text.
ExpectedLabels ==
    << <<"LRM", 0>>, <<"Ridge", 0>>,
       <<"Random Forest", 3>>, <<"Random Forest", 10>>,
       <<"Random Forest", 20>>, <<"Random Forest", 100>>,
       <<"Random Forest", 250>>,
       <<"K-Neighbors", 1>>, <<"K-Neighbors", 3>>, <<"K-Neighbors", 5>>,
       <<"K-Neighbors", 10>>, <<"K-Neighbors", 20>>,
       <<"Extra Trees", 3>>, <<"Extra Trees", 6>>, <<"Extra Trees", 10>>,
       <<"Extra Trees", 20>>,
       <<"SVR (linear)", 0>>, <<"SVR (polynomial)", 0>>, <<"SVR (RBF)", 0>> >>

Labels(scores) == [i \in 1..Len(scores) |-> <<scores[i].msg, scores[i].param>>]

CeilQuarter(n) == (n + 3) \div 4

\* Well-formed inputs: a good command line, readable files, every variable
\* present with the dimensions of CAM output, the same grid and the same
\* time coordinate in both files, no NaN.
WellFormed ==
    /\ env.args_ok /\ env.files_ok
    /\ ds_features.vars = FeatureVars /\ ds_labels.vars = LabelVars
    /\ ds_features.lev = LevCAM /\ ds_labels.lev = LevCAM
    /\ ds_features.dims = ds_labels.dims
    /\ ds_features.time = ds_labels.time
    /\ ds_features.nan = {} /\ ds_labels.nan = {}

\* The grid has enough cells for the largest k of the k-neighbours steps:
\* at least 20 rows are left for training once a quarter is held out.
EnoughRows ==
    LET n == ds_features.dims.time * ds_features.dims.lat
               * ds_features.dims.lon
    IN n - CeilQuarter(n) >= 20

AtSVRLinear == pc = "sweep" /\ call.step = 17

---------------------------------------------------------------------------
(* C1 *)

\* C1 (as stated): on well-formed inputs (of a grid with enough cells for
\* every estimator) the run enters train_test_linear
\* exactly twice, first under the header of the 4-feature tables and then
\* under the header of the 6-feature tables, and ends, with no exception,
\* holding a third split whose feature table has only PRECL and Q.
C1_TwoSweepsThenThirdSplit ==
    (WellFormed /\ EnoughRows) =>
        /\ sweeps <= 2
        /\ pc = "exit" =>
             /\ sweeps = 2
             /\ exc = "None"
             /\ SelectSeq(log, LAMBDA r : r.kind = "info"
                                          /\ r \in {Header(1), Header(2)})
                  = <<Header(1), Header(2)>>
             /\ split # NoSplit
             /\ heap[split.train_x].columns = <<"PRECL", "Q">>

---------------------------------------------------------------------------
(* C2 *)

\* C2 (as stated): a call of train_test_linear on the tables the script's
\* splitter produced from well-formed inputs (of a grid with enough cells
\* for every estimator) has, once it is over, logged exactly the 19 scores,
\* one per estimator, and raised nothing.
C2_SweepLogsAllScores ==
    (sweeps >= 1 /\ pc # "sweep" /\ WellFormed /\ EnoughRows) =>
        /\ exc = "None"
        /\ Labels(Scores) = ExpectedLabels

---------------------------------------------------------------------------
(* C3 *)

SameLengthTimes ==
    /\ "time" \in ds_features.vars /\ "time" \in ds_labels.vars
    /\ Len(ds_features.time) = Len(ds_labels.time)

---------------------------------------------------------------------------
(* C4 *)

\* C4: an exception is in flight only at the handler; the handler's step is
\* the only step taken once an exception is raised: it appends the one
\* 'Failed to complete' record to the log, re-raises (the exception stays)
\* and the process ends with status 1, no table, split or call touched.
\* A process that ended with status 1 has an exception and exactly one
\* such record, the last of its log; one that ended with status 0 has no
\* exception and no such record; a run that has not exited is at a statement
\* that can always be executed, so a run stops only at the exit.
C4_LoggedOnceAndReraised ==
    /\ [](/\ (exc # "None") <=> (pc = "raised" \/ exitcode = 1)
          /\ (pc = "exit") <=> (exitcode # -1)
          /\ exitcode \in {-1, 0, 1, 2}
          /\ exitcode = 1 => /\ Count(log, Failed) = 1
                             /\ log[Len(log)] = Failed
          /\ exitcode # 1 => Count(log, Failed) = 0
          /\ exitcode = 0 => exc = "None"
          /\ pc \in {"parse", "open", "check", "tabularize", "split1",
                     "enter1", "sweep", "raised", "exit"}
          /\ pc = "sweep" => call.step \in 1..Len(Estimators))
    /\ [][exc # "None" =>
            /\ pc = "raised" /\ pc' = "exit" /\ exitcode' = 1
            /\ log' = Append(log, Failed)
            /\ UNCHANGED <<env, heap, df_features, df_labels, split, call,
                           exc, sweeps>>]_vars

\* A tabularizer exception, logged and re-raised.
C4_Witness ==
    /\ pc = "exit" /\ exitcode = 1 /\ exc = "IndexError"
    /\ log[Len(log)] = Failed
    /\ sweeps = 0

---------------------------------------------------------------------------
(* C5 *)

---------------------------------------------------------------------------
(* C6 *)

\* Python's round(n * 0.25): halves go to the even neighbour.
RoundQuarter(n) ==
    IF n % 4 = 3 THEN n \div 4 + 1
    ELSE IF n % 4 = 2 /\ (n \div 4) % 2 = 1 THEN n \div 4 + 1
    ELSE n \div 4

\* The four tables of the split partition the rows of the two source tables:
\* every row label is in exactly one of train and test, features and labels
\* hold the same rows in the same order, and the test subset has ntest rows.
IsPartition(ntest) ==
    LET x == heap[df_features]
        y == heap[df_labels]
        train_x == heap[split.train_x]
        test_x == heap[split.test_x]
        train_y == heap[split.train_y]
        test_y == heap[split.test_y]
        n == NRows(x)
    IN /\ Range(train_x.index) \cup Range(test_x.index) = Range(x.index)
       /\ Range(train_x.index) \cap Range(test_x.index) = {}
       /\ NRows(test_x) = ntest
       /\ NRows(train_x) = n - ntest
       /\ train_y.index = train_x.index
       /\ test_y.index = test_x.index
       /\ \A c \in Range(x.columns) :
            /\ \A k \in 1..NRows(train_x) :
                 train_x.data[c][k] = x.data[c][train_x.index[k] + 1]
            /\ \A k \in 1..NRows(test_x) :
                 test_x.data[c][k] = x.data[c][test_x.index[k] + 1]
       /\ \A c \in Range(y.columns) :
            /\ \A k \in 1..NRows(train_y) :
                 train_y.data[c][k] = y.data[c][train_y.index[k] + 1]
            /\ \A k \in 1..NRows(test_y) :
                 test_y.data[c][k] = y.data[c][test_y.index[k] + 1]

\* C6 (as stated): a split partitions the n rows with round(n * 0.25) test
\* rows and the rest train rows; 4 and 14 for n = 18.
C6_TestRowsRounded ==
    split # NoSplit =>
        /\ IsPartition(RoundQuarter(NRows(heap[df_features])))
        /\ NRows(heap[df_features]) = 18 =>
             NRows(heap[split.test_x]) = 4 /\ NRows(heap[split.train_x]) = 14

\* C6 (amended): a split partitions the n rows with ceil(n * 0.25) test rows
\* and the remaining n - ceil(n * 0.25) train rows; 5 and 13 for n = 18.
C6_TestRowsCeiling ==
    split # NoSplit =>
        /\ IsPartition(CeilQuarter(NRows(heap[df_features])))
        /\ NRows(heap[df_features]) = 18 =>
             NRows(heap[split.test_x]) = 5 /\ NRows(heap[split.train_x]) = 13

\* A split of 18 rows exists.
C6_Witness ==
    /\ split # NoSplit
    /\ NRows(heap[df_features]) = 18
    /\ NRows(heap[split.test_x]) = 5

---------------------------------------------------------------------------
(* C7, C8 *)

DatasetOf(c) == IF c \in FeatureVars THEN ds_features ELSE ds_labels

\* The column the claim describes for variable c: one value per cell of the
\* (time, lat, lon) grid, cell (t, la, lo) at position (t*nlat + la)*nlon + lo,
\* taken at level 0 when the variable has a level dimension.
ClaimedColumn(c) ==
    LET ds == DatasetOf(c)
        nlat == ds.dims.lat
        nlon == ds.dims.lon
    IN [k \in 1..(ds.dims.time * nlat * nlon) |->
           LET t == (k - 1) \div (nlat * nlon)
               la == ((k - 1) \div nlon) % nlat
               lo == (k - 1) % nlon
           IN IF c \in ds.lev THEN <<c, t, 0, la, lo>> ELSE <<c, t, la, lo>>]

Tables == {heap[id] : id \in {df_features, df_labels} \ {0}}

SelectedSize(c) ==
    LET shape == Shape(DatasetOf(c), c)
    IN IF c \in {"PS", "PRECL", "Q"} THEN Product(shape)
       ELSE shape[1] * shape[3] * shape[4]

---------------------------------------------------------------------------
(* C9 *)

IsPrefix(s, t) == Len(s) <= Len(t) /\ s = SubSeq(t, 1, Len(s))

---------------------------------------------------------------------------
(* C10 *)

\* C10: the scores a call has logged are always the first entries of the
\* 19-entry sequence, as many as the steps it has completed; a step either
\* logs the next score or raises and logs nothing; and once a step has
\* raised, no score is added, none is removed and the call's position does
\* not move.
C10_ScoresArePrefix ==
    /\ [](sweeps >= 1 =>
            /\ IsPrefix(Labels(Scores), ExpectedLabels)
            /\ pc = "sweep" => Len(Scores) = call.step - 1)
    /\ [][pc = "sweep" =>
            \/ /\ Labels(Scores)' = Append(Labels(Scores),
                                           ExpectedLabels[call.step])
               /\ exc' = "None"
            \/ /\ pc' = "raised"
               /\ exc' # "None"
               /\ Scores' = Scores
               /\ call' = call]_vars
    /\ [][exc # "None" => Scores' = Scores /\ call' = call]_vars

\* A step raised after some scores were logged, and the run has ended.
C10_Witness ==
    /\ pc = "exit"
    /\ exc = "ValueError"
    /\ call.step = 12
    /\ Labels(Scores) = SubSeq(ExpectedLabels, 1, 11)

=============================================================================
